---- MODULE Spec2Model ----
(***************************************************************************)
(* Model of the two docling front-ends.                                    *)
(*   main.py        - MainWindow + DoclingWorker (QThread), "continue"     *)
(*                    policy, cooperative cancellation.                    *)
(*   doclingGUI.py  - DoclingGUI, synchronous loop on the UI thread with   *)
(*                    QApplication.processEvents() between files, "abort"  *)
(*                    policy; SettingsManager (JSON settings file).        *)
(* The variable `program` says which of the programs was launched.         *)
(***************************************************************************)
EXTENDS Integers, Sequences, FiniteSets, TLC

\* Bound: number of matching files that can lie under the input directory.
MaxFiles == 2

FileIds == 1..MaxFiles

\* Texts an external process may leave on stderr.
StderrTexts == {"", "parse error"}

VARIABLES
    program,        \* "worker" (main.py) | "sync" (doclingGUI.py) | "settings"
                    \* | "discovery" | "builder" (the pure functions of both)
    tree,           \* discovery: entries of the directory tree under the input folder
    found,          \* discovery: which function ran last and what it returned
    job,            \* builder: the configuration and the file of one conversion
    argv,           \* builder: which builder ran last and the argument list it made
    inputExists,    \* file system: the input directory exists
    present,        \* file system: matching files under the input directory
    w_inputSel,     \* main.py: input_path label is not 'No folder selected'
    w_outputSel,    \* main.py: output_path label is not 'No folder selected'
    start_btn,      \* main.py: start_btn.isEnabled()
    cancel_btn,     \* main.py: cancel_btn.isEnabled()
    progress_label, \* main.py: progress_label.text(), as a tuple of pieces
    temp_dir,       \* main.py: the temporary directory exists
    threads,        \* main.py: DoclingWorker objects not yet finished or current
    sigq,           \* main.py: signals queued from worker threads to the UI thread
    settings_file,  \* doclingGUI.py: content of ~/.docling_gui_settings.json
    loaded,         \* settings: outcome of the last load_settings call
    saved,          \* settings: argument and I/O outcome of the last save_settings
    manager_defaults, \* doclingGUI.py: fields of the object SettingsManager.default_settings
    current_settings, \* doclingGUI.py: which object DoclingGUI.current_settings is
    outState,       \* file system: output directory "exists" | "creatable" | "uncreatable"
    run_button,     \* doclingGUI.py: run_button.isEnabled()
    status_label,   \* doclingGUI.py: status_label.text()
    progress_info,  \* doclingGUI.py: progress_info.text()
    progress_bar,   \* doclingGUI.py: progress_bar.value()
    progress_max,   \* doclingGUI.py: progress_bar.maximum()
    closed,         \* doclingGUI.py: the window was closed
    stack           \* doclingGUI.py: handlers of the UI thread that have not returned

wvars == <<w_inputSel, w_outputSel, start_btn, cancel_btn, progress_label,
           temp_dir, threads, sigq>>
fsvars == <<inputExists, present>>
pvars == <<settings_file, loaded, saved, manager_defaults, current_settings>>
svars == <<outState, run_button, status_label, progress_info, progress_bar,
           progress_max, closed,
           stack>>
xvars == <<tree, found, job, argv>>
vars == <<program, xvars, fsvars, wvars, pvars, svars>>

\* Texts shown to the user are tuples of pieces: a literal text, the name
\* of a discovered file (Path.name, os.path.basename) or its path.
Txt(s) == <<"text", s>>
Name(f) == <<"name", f>>
PathOf(f) == <<"path", f>>

\* Substring tests on such a text; the empty string is in every string.
Contains(msg, piece) == \E i \in DOMAIN msg : msg[i] = piece
ContainsText(msg, s) == s = "" \/ Contains(msg, Txt(s))

\* Ascending sequence of the members of a finite set of integers.
RECURSIVE SortedSeq(_)
SortedSeq(S) ==
    IF S = {} THEN <<>>
    ELSE LET m == CHOOSE x \in S : \A y \in S : x <= y
         IN <<m>> \o SortedSeq(S \ {m})

(***************************************************************************)
(* main.py                                                                 *)
(***************************************************************************)

\* FileProcessor.get_files_to_process: every error is swallowed and the
\* files found so far are returned; a directory that does not exist yields
\* nothing.  This is the result of a scan over a folder that does not
\* change while it is scanned; the worker's scan is W_Discover and
\* W_ScanEntry.
get_files_to_process(exists, files) ==
    IF exists THEN SortedSeq(files) ELSE <<>>

\* The entries directory.rglob('*') yields to the loop of
\* get_files_to_process (line 57), as far as their names are valid: the
\* folder is listed when the scan starts.
rglob(exists, files) == IF exists THEN SortedSeq(files) ELSE <<>>

\* One iteration of that loop (lines 58-59): the entry is appended when
\* is_file() finds it, which it does not once it is gone.
scan_entry(found_so_far, e, files_now) ==
    IF e \in files_now THEN Append(found_so_far, e) ELSE found_so_far

\* DoclingWorker.__init__ (with the bookkeeping of what the thread did).
NewWorker(inputOk) ==
    [pc |-> "start", files |-> <<>>, scan |-> <<>>, idx |-> 0,
     is_cancelled |-> FALSE,
     log |-> <<>>, failed |-> {}, errs |-> <<>>, cancelBetween |-> -1,
     cancelDuring |-> 0, inputOk |-> inputOk]

\* MainWindow._validate_paths: the label set on failure, <<>> when valid.
ValidatePathsW(inSel, outSel) ==
    IF ~inSel THEN <<Txt("Please select an input folder")>>
    ELSE IF ~outSel THEN <<Txt("Please select an output folder")>>
    ELSE <<>>

\* str() of the UnicodeDecodeError subprocess.run(text=True) raises when
\* the output of the process is not UTF-8, whatever its exit code.
DecodeErrorText == "'utf-8' codec can't decode byte"

\* The ways the external process can end: an exit code with a stderr
\* text, or output that cannot be decoded.
ProcessOutcomes ==
    {[kind |-> "exit", code |-> 0, stderr |-> ""]}
    \cup {[kind |-> "exit", code |-> 1, stderr |-> e] : e \in StderrTexts}
    \cup {[kind |-> "undecodable", code |-> c, stderr |-> ""] : c \in {0, 1}}

\* The cause string of a failed outcome.
CauseOf(out) == IF out.kind = "undecodable" THEN DecodeErrorText ELSE out.stderr

\* DoclingWorker._process_single_file: the exception raised, <<>> if none.
\* out.kind: "exit" (with code, stderr) or "oserror" (subprocess.run itself
\* raised, the process never ran).
process_single_file(out) ==
    IF out.kind = "oserror" THEN <<Txt("OSError")>>
    ELSE IF out.kind = "undecodable" THEN <<Txt(DecodeErrorText)>>
    ELSE IF out.code # 0 THEN <<Txt("Docling failed: "), Txt(out.stderr)>>
    ELSE <<>>

\* The error signal _process_files emits for an exception of file f.
ErrorSignal(f, exc) ==
    [sig |-> "error", msg |-> <<Txt("Failed to process "), Name(f), Txt(": ")>> \o exc]

\* Variant: the exception of one file ends the loop.
PcAfterErrorEndsLoop == "finish"

\* Where _process_files goes after an exception of one file: the except
\* clause is inside the loop, so the loop goes on.
PcAfterError == "check"

\* Bookkeeping for the properties: the files a process was started for;
\* the files the loop has tried; at a cancellation request, the number k of
\* files whose conversion has ended when no conversion is under way (-1
\* while a process runs or when the loop is over).
Started(w) == {w.log[i][2] : i \in {j \in 1..Len(w.log) : w.log[j][1] = "start"}}
Tried(w) == Started(w) \cup {x.f : x \in w.failed}
FilesEnded(w) ==
    CASE w.pc \in {"start", "scan", "check"} -> w.idx
      [] w.pc = "spawn" -> w.idx - 1
      [] OTHER -> -1

\* select_input_folder / select_output_folder: the dialog returns an
\* existing directory.
SelectInputFolder ==
    /\ program = "worker"
    /\ inputExists
    /\ ~w_inputSel
    /\ w_inputSel' = TRUE
    /\ UNCHANGED <<program, xvars, fsvars, w_outputSel, start_btn, cancel_btn,
                   progress_label, temp_dir, threads, sigq, pvars, svars>>

SelectOutputFolder ==
    /\ program = "worker"
    /\ ~w_outputSel
    /\ w_outputSel' = TRUE
    /\ UNCHANGED <<program, xvars, fsvars, w_inputSel, start_btn, cancel_btn,
                   progress_label, temp_dir, threads, sigq, pvars, svars>>

\* Variant: start_processing forgets to disable the Start button.
StartButtonsStartLeftEnabled == [start |-> TRUE, cancel |-> TRUE]

\* What start_processing does to the two buttons.
StartButtons == [start |-> FALSE, cancel |-> TRUE]

\* MainWindow.start_processing (a click on the enabled Start button).
start_processing ==
    /\ program = "worker"
    /\ start_btn
    /\ LET err == ValidatePathsW(w_inputSel, w_outputSel)
       IN IF err # <<>>
          THEN /\ progress_label' = err
               /\ UNCHANGED <<start_btn, cancel_btn, temp_dir, threads>>
          ELSE /\ temp_dir' = TRUE
               /\ threads' = Append(SelectSeq(threads, LAMBDA w : w.pc # "done"),
                                    NewWorker(inputExists))
               /\ start_btn' = StartButtons.start
               /\ cancel_btn' = StartButtons.cancel
               /\ UNCHANGED progress_label
    /\ UNCHANGED <<program, xvars, fsvars, w_inputSel, w_outputSel, sigq, pvars, svars>>

\* The index of the file whose external process is alive, 0 when there is
\* none.
FileInProcess(w) == IF w.pc = "wait" THEN w.idx ELSE 0

\* A cancel that would also end the external process of the current file.
cancel_ending_process(w) ==
    [w EXCEPT !.is_cancelled = TRUE,
              !.pc = IF w.pc = "wait" THEN "check" ELSE w.pc]

\* DoclingWorker.cancel: the flag is set, nothing else.
cancel(w) == [w EXCEPT !.is_cancelled = TRUE]

\* MainWindow.cancel_processing (a click on the enabled Cancel button);
\* self.worker is the thread created last.  cancelBetween and cancelDuring
\* record where the worker was when the request came.
cancel_processing ==
    /\ program = "worker"
    /\ cancel_btn
    /\ IF threads # <<>>
       THEN LET t == Len(threads)
                w == threads[t]
            IN /\ threads' = [threads EXCEPT
                       ![t] = [cancel(w) EXCEPT
                                  !.cancelBetween = FilesEnded(w),
                                  !.cancelDuring = FileInProcess(w)]]
               /\ progress_label' = <<Txt("Cancelling...")>>
               /\ cancel_btn' = FALSE
       ELSE UNCHANGED <<threads, progress_label, cancel_btn>>
    /\ UNCHANGED <<program, xvars, fsvars, w_inputSel, w_outputSel, start_btn,
                   temp_dir, sigq, pvars, svars>>

\* A finished handler that would leave Cancel enabled.
FinishedButtonsCancelLeftEnabled == [start |-> TRUE, cancel |-> TRUE]

\* What _processing_finished does to the two buttons (lines 299-300).
FinishedButtons == [start |-> TRUE, cancel |-> FALSE]

\* The label MainWindow._processing_finished leaves.
FinishedLabel == <<Txt("Processing completed")>>

\* The UI thread takes the next queued signal: _update_progress,
\* _handle_error or _processing_finished.
UiDeliver ==
    /\ program = "worker"
    /\ sigq # <<>>
    /\ LET s == Head(sigq)
       IN /\ sigq' = Tail(sigq)
          /\ CASE s.sig = "progress" ->
                    /\ progress_label' = s.msg
                    /\ UNCHANGED <<start_btn, cancel_btn, temp_dir>>
               [] s.sig = "error" ->
                    /\ progress_label' = <<Txt("Error: ")>> \o s.msg
                    /\ UNCHANGED <<start_btn, cancel_btn, temp_dir>>
               [] s.sig = "finished" ->
                    /\ temp_dir' = FALSE
                    /\ start_btn' = FinishedButtons.start
                    /\ cancel_btn' = FinishedButtons.cancel
                    /\ progress_label' = FinishedLabel
    /\ UNCHANGED <<program, xvars, fsvars, w_inputSel, w_outputSel, threads, pvars, svars>>

\* DoclingWorker._process_files, lines 89-90: discovery.
W_Discover(t) ==
    LET entries == rglob(inputExists, present)
    IN /\ threads[t].pc = "start"
       /\ threads' = [threads EXCEPT
               ![t].scan = entries,
               ![t].pc = IF entries = <<>> THEN "check" ELSE "scan"]
       /\ UNCHANGED <<program, xvars, fsvars, w_inputSel, w_outputSel, start_btn,
                      cancel_btn, progress_label, temp_dir, sigq, pvars, svars>>

\* get_files_to_process, one entry of the scan (lines 57-59); the folder
\* may have changed since the scan started.  After the last entry the
\* list is returned to _process_files.
W_ScanEntry(t) ==
    LET w == threads[t]
    IN /\ w.pc = "scan"
       /\ threads' = [threads EXCEPT
               ![t].files = scan_entry(w.files, Head(w.scan), present),
               ![t].scan = Tail(w.scan),
               ![t].pc = IF Tail(w.scan) = <<>> THEN "check" ELSE "scan"]
       /\ UNCHANGED <<program, xvars, fsvars, w_inputSel, w_outputSel, start_btn,
                      cancel_btn, progress_label, temp_dir, sigq, pvars, svars>>

\* Top of one iteration of the for loop (lines 92-97): next file, the
\* is_cancelled test, the progress signal.
W_Check(t) ==
    LET w == threads[t]
    IN /\ w.pc = "check"
       /\ IF w.idx = Len(w.files)
          THEN /\ threads' = [threads EXCEPT ![t].pc = "finish"]
               /\ UNCHANGED sigq
          ELSE IF w.is_cancelled
          THEN /\ threads' = [threads EXCEPT ![t].pc = "finish",
                                             ![t].idx = w.idx + 1]
               /\ UNCHANGED sigq
          ELSE /\ threads' = [threads EXCEPT ![t].pc = "spawn",
                                             ![t].idx = w.idx + 1]
               /\ sigq' = Append(sigq,
                     [sig |-> "progress",
                      msg |-> <<Txt("Processing "), PathOf(w.files[w.idx + 1])>>])
       /\ UNCHANGED <<program, xvars, fsvars, w_inputSel, w_outputSel, start_btn,
                      cancel_btn, progress_label, temp_dir, pvars, svars>>

\* _process_single_file up to the start of the external process
\* (subprocess.run, line 109); when the process cannot be started the
\* exception is handled at lines 100-102.
W_Spawn(t) ==
    LET w == threads[t]
        f == w.files[w.idx]
    IN /\ w.pc = "spawn"
       /\ \/ /\ threads' = [threads EXCEPT
                    ![t].pc = "wait",
                    ![t].log = Append(w.log, <<"start", f>>)]
             /\ UNCHANGED sigq
          \/ LET sg == ErrorSignal(f, process_single_file([kind |-> "oserror"]))
             IN /\ threads' = [threads EXCEPT
                       ![t].pc = PcAfterError,
                       ![t].failed = w.failed \cup {[f |-> f, cause |-> "OSError"]},
                       ![t].errs = Append(w.errs, sg.msg)]
                /\ sigq' = Append(sigq, sg)
       /\ UNCHANGED <<program, xvars, fsvars, w_inputSel, w_outputSel, start_btn,
                      cancel_btn, progress_label, temp_dir, pvars, svars>>

\* The external process exits; subprocess.run returns or raises
\* CalledProcessError (lines 109-117), handled at lines 100-102.
W_Exit(t) ==
    LET w == threads[t]
        f == w.files[w.idx]
    IN /\ w.pc = "wait"
       /\ \E out \in ProcessOutcomes :
            LET exc == process_single_file(out)
                lg == Append(w.log, <<"exit", f>>)
            IN IF exc = <<>>
               THEN /\ threads' = [threads EXCEPT ![t].pc = "check",
                                                  ![t].log = lg]
                    /\ UNCHANGED sigq
               ELSE /\ threads' = [threads EXCEPT
                           ![t].pc = PcAfterError,
                           ![t].log = lg,
                           ![t].failed = w.failed \cup {[f |-> f, cause |-> CauseOf(out)]},
                           ![t].errs = Append(w.errs, ErrorSignal(f, exc).msg)]
                    /\ sigq' = Append(sigq, ErrorSignal(f, exc))
       /\ UNCHANGED <<program, xvars, fsvars, w_inputSel, w_outputSel, start_btn,
                      cancel_btn, progress_label, temp_dir, pvars, svars>>

\* DoclingWorker.run, finally clause (line 85).
W_Finish(t) ==
    /\ threads[t].pc = "finish"
    /\ threads' = [threads EXCEPT ![t].pc = "done"]
    /\ sigq' = Append(sigq, [sig |-> "finished"])
    /\ UNCHANGED <<program, xvars, fsvars, w_inputSel, w_outputSel, start_btn,
                   cancel_btn, progress_label, temp_dir, pvars, svars>>

WorkerStep ==
    /\ program = "worker"
    /\ \E t \in 1..Len(threads) :
          \/ W_Discover(t)
          \/ W_ScanEntry(t)
          \/ W_Check(t)
          \/ W_Spawn(t)
          \/ W_Exit(t)
          \/ W_Finish(t)

\* The environment removes the input directory.
RemoveInputFolder ==
    /\ program = "worker"
    /\ inputExists
    /\ inputExists' = FALSE
    /\ present' = {}
    /\ UNCHANGED <<program, xvars, wvars, pvars, svars>>

\* MainWindow.__init__ / init_ui: the window as constructed.
WindowInitW ==
    /\ w_inputSel = FALSE
    /\ w_outputSel = FALSE
    /\ start_btn = TRUE
    /\ cancel_btn = FALSE
    /\ progress_label = <<>>
    /\ temp_dir = FALSE
    /\ threads = <<>>
    /\ sigq = <<>>

\* The maximum of a QProgressBar as constructed (line 232).
DefaultMaximum == 100

\* DoclingGUI.init_ui: the window as constructed (lines 208-296).
WindowInitS ==
    /\ run_button = TRUE
    /\ status_label = <<Txt("Ready to start conversion...")>>
    /\ progress_info = <<Txt("0/0 files processed")>>
    /\ progress_bar = 0
    /\ progress_max = DefaultMaximum
    /\ closed = FALSE
    /\ stack = <<>>

\* The fixed keys of the settings object (AppSettings, lines 25-32).
Keys == {"input_path", "output_path", "ocr_enabled", "force_ocr",
         "ocr_engine", "table_mode", "verbosity", "delete_pdfs"}

\* QSpinBox range of the verbosity widget.
MaxVerbosity == 2

\* SettingsManager.default_settings as __init__ makes it (lines 38-41,
\* defaults of lines 27-32).
default_settings ==
    [input_path |-> "~/Documents", output_path |-> "~/Documents",
     ocr_enabled |-> FALSE, force_ocr |-> FALSE, ocr_engine |-> "easyocr",
     table_mode |-> "accurate", verbosity |-> 0, delete_pdfs |-> FALSE]

\* A SettingsManager was made (lines 36-41) and none of its methods was
\* called; DoclingGUI.current_settings is not assigned yet.
NoSettingsCalls ==
    /\ loaded = [kind |-> "none"]
    /\ saved = [kind |-> "none"]
    /\ manager_defaults = default_settings
    /\ current_settings = "none"

\* Nothing was discovered and no command was built.
NoFunctionCalls ==
    /\ tree = {}
    /\ found = [by |-> "none"]
    /\ job = [kind |-> "none"]
    /\ argv = [by |-> "none"]

InitWorker ==
    /\ program = "worker"
    /\ inputExists = TRUE
    /\ present \in SUBSET FileIds
    /\ outState = "exists"
    /\ settings_file = [kind |-> "absent"]
    /\ WindowInitW
    /\ WindowInitS
    /\ NoSettingsCalls
    /\ NoFunctionCalls

NextWorker ==
    \/ SelectInputFolder
    \/ SelectOutputFolder
    \/ start_processing
    \/ cancel_processing
    \/ UiDeliver
    \/ WorkerStep
    \/ RemoveInputFolder

(***************************************************************************)
(* doclingGUI.py: SettingsManager                                          *)
(***************************************************************************)

\* A settings value that differs from the defaults in every field.
other_settings ==
    [input_path |-> "/in", output_path |-> "/out",
     ocr_enabled |-> TRUE, force_ocr |-> TRUE, ocr_engine |-> "tesseract",
     table_mode |-> "fast", verbosity |-> MaxVerbosity, delete_pdfs |-> TRUE]

\* The valid settings the model draws from: the defaults, the value that
\* differs everywhere, every value that differs from one of the two in one
\* field, and every verbosity level.
ValidSettings ==
    {default_settings, other_settings}
    \cup {[default_settings EXCEPT ![k] = other_settings[k]] : k \in Keys}
    \cup {[other_settings EXCEPT ![k] = default_settings[k]] : k \in Keys}
    \cup {[default_settings EXCEPT !.verbosity = v] : v \in 0..MaxVerbosity}

\* json.dump of one Python value: bool -> true/false, int -> number,
\* str -> string.
JsonEncode(k, v) ==
    IF k \in {"ocr_enabled", "force_ocr", "delete_pdfs"}
    THEN <<"lit", IF v THEN "true" ELSE "false">>
    ELSE IF k = "verbosity" THEN <<"num", v>>
    ELSE <<"str", v>>

\* json.load of one JSON value.
JsonDecode(tok) ==
    IF tok[1] = "lit" THEN tok[2] = "true" ELSE tok[2]

\* The dictionary save_settings builds (lines 66-75), as JSON members.
SettingsDict(S) == [k \in Keys |-> JsonEncode(k, S[k])]

\* SettingsManager.save_settings: the file afterwards. io: "ok",
\* "open_fails" (OSError before anything is written) or "write_fails"
\* (OSError after open(..., 'w') truncated the file).  Writing a file does
\* not change who may read it: a file that open(..., 'r') cannot open
\* stays so, whatever is written into it.
save_settings(file, S, io) ==
    CASE io = "open_fails" -> file
      [] file.kind = "unreadable" -> file
      [] io = "ok" -> [kind |-> "object", members |-> SettingsDict(S)]
      [] io = "write_fails" -> [kind |-> "malformed"]

\* What load_settings returns at line 61: the object
\* self.default_settings itself, with the fields it has by now.
ReturnDefaults(defaults) ==
    [raised |-> FALSE, value |-> defaults, is_default |-> TRUE]

\* An exception that load_settings does not catch; nothing is returned.
Raises(defaults) ==
    [raised |-> TRUE, value |-> defaults, is_default |-> FALSE]

\* What load_settings does with a file it could parse: dict.get per key
\* on an object, a new AppSettings; anything else has no .get
\* (AttributeError, not caught).
FromParsed(file, defaults) ==
    IF file.kind = "object"
    THEN [raised |-> FALSE,
          value |-> [k \in Keys |->
                       IF k \in DOMAIN file.members
                       THEN JsonDecode(file.members[k])
                       ELSE defaults[k]],
          is_default |-> FALSE]
    ELSE Raises(defaults)

\* SettingsManager.load_settings. File kinds: "absent"; "unreadable" (open
\* raises OSError); "malformed" (json.JSONDecodeError); "undecodable" (not
\* UTF-8 text: UnicodeDecodeError, a ValueError the except clause does not
\* name); "nonobject" (valid JSON that is no object); "object".
load_settings(file, defaults) ==
    CASE file.kind = "absent" -> ReturnDefaults(defaults)
      [] file.kind \in {"unreadable", "malformed"} -> ReturnDefaults(defaults)
      [] file.kind = "undecodable" -> Raises(defaults)
      [] OTHER -> FromParsed(file, defaults)

\* The states of the settings file the model starts from.
SettingsFiles ==
    {[kind |-> k] : k \in {"absent", "unreadable", "malformed",
                           "undecodable", "nonobject"}}
    \cup {[kind |-> "object",
           members |-> [k \in K |-> JsonEncode(k, S[k])]] :
             K \in SUBSET Keys, S \in {default_settings, other_settings}}

IoOutcomes == {"ok", "open_fails", "write_fails"}

\* self.current_settings = self.settings_manager.load_settings() (line
\* 85): current_settings becomes the returned object, which is the
\* manager's default_settings object or a new one; after an exception the
\* assignment does not happen.
P_Load ==
    LET res == load_settings(settings_file, manager_defaults)
    IN /\ program = "settings"
       /\ loaded' = [kind |-> "result", file |-> settings_file, res |-> res]
       /\ current_settings' =
             IF res.raised THEN current_settings
             ELSE IF res.is_default THEN "default_settings" ELSE "loaded"
       /\ UNCHANGED <<program, xvars, fsvars, wvars, settings_file, saved,
                      manager_defaults, svars>>

P_Save ==
    /\ program = "settings"
    /\ \E S \in ValidSettings, io \in IoOutcomes :
          /\ settings_file' = save_settings(settings_file, S, io)
          /\ saved' = [kind |-> "saved", S |-> S, io |-> io]
    /\ loaded' = [kind |-> "none"]
    /\ UNCHANGED <<program, xvars, fsvars, wvars, manager_defaults,
                   current_settings, svars>>

\* The innermost handler of the UI thread that has not returned.
Top == stack[Len(stack)]
Pop == SubSeq(stack, 1, Len(stack) - 1)

\* Events are dispatched by the main event loop, or by the
\* QApplication.processEvents() call of the innermost conversion (line 424).
AtDispatch == IF stack = <<>> THEN TRUE ELSE Top.pc = "events"

\* What QFileDialog.getExistingDirectory returns: a folder, or "" when the
\* dialog is cancelled.
BrowseFolders == {"", "/picked"}

\* The assignment of lines 131 and 139, guarded by "if folder:".
browse_folder(settings, k, folder) ==
    IF folder # "" THEN [settings EXCEPT ![k] = folder] ELSE settings

\* A browse handler stores the folder in field k of self.current_settings.
\* When that is the manager's default_settings object, the manager's
\* defaults change with it; a loaded object is read by nothing else.  The
\* handler is one of the window: it runs when the window is up and events
\* are dispatched, also from the processEvents() call of a conversion.  The
\* dialog is modal and the handler returns when it is answered.
Browse(k) ==
    /\ program \in {"settings", "sync"}
    /\ current_settings # "none"
    /\ AtDispatch
    /\ ~closed
    /\ \E folder \in BrowseFolders :
          manager_defaults' =
             IF current_settings = "default_settings"
             THEN browse_folder(manager_defaults, k, folder)
             ELSE manager_defaults
    /\ UNCHANGED <<program, xvars, fsvars, wvars, settings_file, loaded, saved,
                   current_settings, svars>>

\* DoclingGUI.browse_input_folder (lines 125-131).
browse_input_folder == Browse("input_path")

\* DoclingGUI.browse_output_folder (lines 133-139).
browse_output_folder == Browse("output_path")

InitSettings ==
    /\ program = "settings"
    /\ inputExists = TRUE
    /\ present = {}
    /\ outState = "exists"
    /\ settings_file \in SettingsFiles
    /\ WindowInitW
    /\ WindowInitS
    /\ NoSettingsCalls
    /\ NoFunctionCalls

NextSettings ==
    \/ P_Load
    \/ P_Save
    \/ browse_input_folder
    \/ browse_output_folder

(***************************************************************************)
(* doclingGUI.py: DoclingGUI                                               *)
(*                                                                         *)
(* Everything runs on the UI thread.  `stack` holds the handlers that have *)
(* not returned yet, innermost last: a run_conversion call is in its loop  *)
(* (pc "spawn", "wait", "events") or shows its final message box (pc       *)
(* "box"); a reset_conversion call shows its box.  A message box is modal: *)
(* while it is up nothing but its dismissal happens.                       *)
(***************************************************************************)

\* Bound: handlers that may be active at once (a handler entered from the
\* processEvents() call of a conversion that has not returned).
MaxNest == 2

\* What the user may have typed into the two path fields (after strip()).
InputTexts == {"", "/in"}
OutputTexts == {"", "/out"}

\* Bookkeeping for the properties: both folders are given, the input
\* folder exists and the output folder exists or can be created.
FoldersUsable(inText, outText, inExists, outSt) ==
    inText # "" /\ outText # "" /\ inExists /\ outSt # "uncreatable"

\* DoclingGUI.validate_paths: the error text, <<>> when valid.
validate_paths(inText, outText, inExists, outSt) ==
    IF inText = "" \/ outText = ""
    THEN <<Txt("Please specify both input and output folders.")>>
    ELSE IF ~inExists THEN <<Txt("Input folder does not exist.")>>
    ELSE IF outSt = "uncreatable"
    THEN <<Txt("Failed to create output folder: "), Txt("OSError")>>
    ELSE <<>>

\* DoclingGUI._find_pdf_files: os.walk order over the tree.
find_pdf_files(files) == SortedSeq(files)

\* The message of the RuntimeError raised for a failed process
\* (lines 414-419).
ConversionError(f, code, stderr) ==
    <<Txt("Error processing "), Name(f),
      Txt("\nCommand failed with exit status "), <<"code", code>>,
      Txt("\nError output:\n"),
      Txt(IF stderr # "" THEN stderr ELSE "No error output"),
      Txt("\nStandard output:\n"), <<"stdout">>>>

\* The text of the box of run_conversion's except clause (line 312).
FailureText(msg) == <<Txt("Conversion failed:\n")>> \o msg

\* The text of the box after _process_conversion returned (line 309).
SuccessText == <<Txt("Conversion completed successfully!")>>

\* Variant: the first os.remove that fails ends the deletion.
delete_until_first_failure(files, fails) ==
    {f \in files : \A g \in fails : f < g}

\* DoclingGUI._delete_processed_pdfs: the files removed, given the files
\* under the folder and those whose os.remove raises OSError.
delete_processed_pdfs(files, fails) == files \ fails

\* The condition under which _process_conversion deletes (line 426),
\* reached only when the loop ended without an exception.
DeletesAfterLoop(fr) == fr.del

\* A run_conversion call entering its loop with the files discovered and
\* config.delete_pdfs.
\* (with the bookkeeping of what the run did: the file whose process failed
\* and its stderr, the files the deletion found, removed and could not
\* remove, whether the folders were usable at the click).
NewRun(files, del, usable) ==
    [kind |-> "run", pc |-> "spawn", files |-> files, idx |-> 1, del |-> del,
     log |-> <<>>, result |-> "Running", box |-> <<>>, failed |-> 0, code |-> 0,
     how |-> "exit",
     stderr |-> "", delSeen |-> {}, deleted |-> {}, delFailed |-> {},
     usable |-> usable, wasReset |-> FALSE]

\* The call showing its final box: how the run ended.
Ended(fr, result, text) == [fr EXCEPT !.pc = "box", !.result = result, !.box = text]

\* An exception leaves _process_conversion: the finally clause (lines
\* 433-436) and run_conversion's except clause (lines 310-312).
RunFails(fr, msg) ==
    /\ run_button' = TRUE
    /\ stack' = [stack EXCEPT ![Len(stack)] = Ended(fr, "Failed", FailureText(msg))]

\* QProgressBar.setValue: a value outside the range is ignored, unless
\* minimum and maximum are both 0.
setValue(value, maximum, v) ==
    IF (v > maximum \/ v < 0) /\ maximum # 0 THEN value ELSE v

\* QProgressBar.setMaximum: a value that falls outside the new range is
\* reset to minimum - 1.
setMaximum(value, m) == IF value > m THEN -1 ELSE value

\* DoclingGUI.run_conversion up to the first file (lines 298-308, 349-362);
\* the contents of the widgets at the time of the click are its inputs.
run_conversion ==
    /\ program = "sync"
    /\ AtDispatch
    /\ ~closed
    /\ run_button
    /\ Len(stack) < MaxNest
    /\ \E inText \in InputTexts, outText \in OutputTexts, del \in BOOLEAN :
         LET err == validate_paths(inText, outText, inputExists, outState)
             files == find_pdf_files(present)
             usable == FoldersUsable(inText, outText, inputExists, outState)
             fr == NewRun(files, del, usable)
         IN IF err # <<>>
            THEN /\ stack' = Append(stack,
                       Ended(NewRun(<<>>, FALSE, usable), "Rejected", err))
                 /\ UNCHANGED <<outState, run_button, progress_bar, progress_max>>
            ELSE /\ outState' = "exists"
                 /\ IF files = <<>>
                    THEN /\ run_button' = TRUE
                         /\ stack' = Append(stack, Ended(fr, "Failed",
                               FailureText(<<Txt("No PDF files found in the input folder")>>)))
                         /\ UNCHANGED <<progress_bar, progress_max>>
                    ELSE /\ run_button' = FALSE
                         /\ progress_max' = Len(files)
                         /\ progress_bar' =
                               setValue(setMaximum(progress_bar, Len(files)),
                                        Len(files), 0)
                         /\ stack' = Append(stack, fr)
    /\ UNCHANGED <<program, xvars, fsvars, wvars, pvars, status_label, progress_info,
                   closed>>

\* Top of one iteration (lines 364-406): labels, output directory, command,
\* start of the external process; os.makedirs or the start of the process
\* may raise OSError.
S_Spawn ==
    /\ program = "sync"
    /\ stack # <<>>
    /\ Top.pc = "spawn"
    /\ LET f == Top.files[Top.idx]
       IN /\ status_label' = <<Txt("Processing: "), Name(f)>>
          /\ progress_info' = <<<<"of", Top.idx, Len(Top.files)>>>>
          /\ \/ /\ stack' = [stack EXCEPT
                       ![Len(stack)].pc = "wait",
                       ![Len(stack)].log = Append(Top.log, <<"start", f>>)]
                /\ UNCHANGED run_button
             \/ RunFails(Top, <<Txt("OSError")>>)
    /\ UNCHANGED <<program, xvars, fsvars, wvars, pvars, outState, progress_bar,
                   progress_max, closed>>

\* Variant: the failure is swallowed and the loop goes on.
OnProcessFailureGoesOn(fr, f, out) ==
    /\ stack' = [stack EXCEPT ![Len(stack)] = [fr EXCEPT !.pc = "events"]]
    /\ UNCHANGED run_button

\* What the loop does when the process of the current file failed: it
\* raises (line 421), which ends the run.
OnProcessFailure(fr, f, out) ==
    RunFails(fr, ConversionError(f, out.code, out.stderr))

\* The external process exits (lines 401-423).
S_Exit ==
    /\ program = "sync"
    /\ stack # <<>>
    /\ Top.pc = "wait"
    /\ \E out \in ProcessOutcomes :
         LET f == Top.files[Top.idx]
             ok == out.kind = "exit" /\ out.code = 0
             fr == [Top EXCEPT !.log = Append(Top.log, <<"exit", f>>),
                               !.failed = IF ok THEN 0 ELSE f,
                               !.code = out.code,
                               !.how = out.kind,
                               !.stderr = out.stderr]
         IN IF ok
            THEN /\ stack' = [stack EXCEPT ![Len(stack)] = [fr EXCEPT !.pc = "events"]]
                 /\ progress_bar' = setValue(progress_bar, progress_max, Top.idx)
                 /\ UNCHANGED run_button
            ELSE IF out.kind = "undecodable"
            THEN /\ RunFails(fr, <<Txt(DecodeErrorText)>>)
                 /\ UNCHANGED progress_bar
            ELSE /\ OnProcessFailure(fr, f, out)
                 /\ UNCHANGED progress_bar
    /\ UNCHANGED <<program, xvars, fsvars, wvars, pvars, outState, status_label,
                   progress_max, closed,
                   progress_info>>

\* processEvents() returns and the loop goes to its next file.
S_NextFile ==
    /\ program = "sync"
    /\ stack # <<>>
    /\ Top.pc = "events"
    /\ Top.idx < Len(Top.files)
    /\ stack' = [stack EXCEPT ![Len(stack)].pc = "spawn",
                              ![Len(stack)].idx = Top.idx + 1]
    /\ UNCHANGED <<program, xvars, fsvars, wvars, pvars, outState, run_button,
                   status_label, progress_info, progress_bar, progress_max,
                   closed>>

\* processEvents() returns after the last file: optional deletion, final
\* labels, finally clause, success box (lines 426-436, 309).
S_Complete ==
    /\ program = "sync"
    /\ stack # <<>>
    /\ Top.pc = "events"
    /\ Top.idx = Len(Top.files)
    /\ \E fails \in SUBSET present :
         LET gone == IF DeletesAfterLoop(Top)
                     THEN delete_processed_pdfs(present, fails) ELSE {}
             notGone == IF DeletesAfterLoop(Top) THEN fails ELSE {}
         IN /\ DeletesAfterLoop(Top) \/ fails = {}
            /\ present' = present \ gone
            /\ stack' = [stack EXCEPT ![Len(stack)] =
                   [Ended(Top, "Completed", SuccessText)
                        EXCEPT !.deleted = gone, !.delFailed = notGone,
                               !.delSeen = IF DeletesAfterLoop(Top)
                                           THEN present ELSE {}]]
    /\ status_label' = <<Txt("Conversion completed successfully!")>>
    /\ progress_info' = <<<<"processed", Len(Top.files)>>>>
    /\ run_button' = TRUE
    /\ UNCHANGED <<program, xvars, inputExists, wvars, pvars, outState, progress_bar,
                   progress_max, closed>>

\* The settings save_current_settings collects from the widgets (lines
\* 476-485); the option widgets the model does not follow are as built.
CurrentSettings(inText, outText, del) ==
    [default_settings EXCEPT !.input_path = inText, !.output_path = outText,
                             !.delete_pdfs = del]

\* DoclingGUI.save_current_settings: what the settings file can hold
\* afterwards, for every content of the widgets and every I/O outcome.
save_current_settings(file) ==
    {save_settings(file, CurrentSettings(inText, outText, del), io) :
        inText \in InputTexts, outText \in OutputTexts, del \in BOOLEAN,
        io \in IoOutcomes}

\* The calls of _process_conversion that have not returned when
\* reset_conversion is called are recorded as reset.
MarkReset(st) ==
    [i \in DOMAIN st |->
        IF st[i].kind = "run" THEN [st[i] EXCEPT !.wasReset = TRUE] ELSE st[i]]

\* DoclingGUI.reset_conversion (a click on Reset), up to its message box;
\* the contents of the widgets at the time of the click are its inputs.
reset_conversion ==
    /\ program = "sync"
    /\ AtDispatch
    /\ ~closed
    /\ progress_bar' = setValue(progress_bar, progress_max, 0)
    /\ progress_info' = <<Txt("0/0 files processed")>>
    /\ status_label' = <<Txt("Ready to start conversion...")>>
    /\ run_button' = TRUE
    /\ settings_file' \in save_current_settings(settings_file)
    /\ stack' = Append(MarkReset(stack),
                       [kind |-> "reset", pc |-> "box",
                        box |-> <<Txt("Conversion state has been reset."),
                                  Txt("\nYou can now start a new conversion.")>>])
    /\ UNCHANGED <<program, xvars, fsvars, wvars, loaded, saved,
                   manager_defaults, current_settings, outState,
                   progress_max, closed>>

\* DoclingGUI.closeEvent (the user closes the window): the settings are
\* saved and the event is accepted; a conversion in progress goes on.
closeEvent ==
    /\ program = "sync"
    /\ AtDispatch
    /\ ~closed
    /\ closed' = TRUE
    /\ settings_file' \in save_current_settings(settings_file)
    /\ UNCHANGED <<program, xvars, fsvars, wvars, loaded, saved,
                   manager_defaults, current_settings, outState,
                   run_button, status_label, progress_info, progress_bar,
                   progress_max, stack>>

\* The user dismisses the message box; the handler that showed it returns.
S_Dismiss ==
    /\ program = "sync"
    /\ stack # <<>>
    /\ Top.pc = "box"
    /\ stack' = Pop
    /\ UNCHANGED <<program, xvars, fsvars, wvars, pvars, outState, run_button,
                   status_label, progress_info, progress_bar, progress_max,
                   closed>>

\* The files another program may put under the input folder.
LateFiles == {MaxFiles}

\* Environment: another program puts a PDF file under the input folder
\* while the external process of a conversion is running.
S_FileAppears ==
    /\ program = "sync"
    /\ inputExists
    /\ stack # <<>>
    /\ Top.pc = "wait"
    /\ \E f \in LateFiles \ present : present' = present \cup {f}
    /\ UNCHANGED <<program, xvars, inputExists, wvars, pvars, svars>>

\* DoclingGUI.__init__ has returned: a SettingsManager was made (line 84)
\* and line 85 called load_settings once and assigned current_settings.
WindowBuilt ==
    LET res == load_settings(settings_file, default_settings)
    IN /\ saved = [kind |-> "none"]
       /\ manager_defaults = default_settings
       /\ loaded = [kind |-> "result", file |-> settings_file, res |-> res]
       /\ ~res.raised
       /\ current_settings =
             IF res.is_default THEN "default_settings" ELSE "loaded"

InitSync ==
    /\ program = "sync"
    /\ inputExists \in BOOLEAN
    /\ present \in (IF inputExists THEN SUBSET FileIds ELSE {{}})
    /\ outState \in {"exists", "creatable", "uncreatable"}
    /\ settings_file = [kind |-> "absent"]
    /\ WindowInitW
    /\ WindowInitS
    /\ WindowBuilt
    /\ NoFunctionCalls

NextSync ==
    \/ run_conversion
    \/ S_Spawn
    \/ S_Exit
    \/ S_NextFile
    \/ S_Complete
    \/ reset_conversion
    \/ S_Dismiss
    \/ closeEvent
    \/ S_FileAppears
    \/ browse_input_folder
    \/ browse_output_folder

(***************************************************************************)
(* Discovery: FileProcessor (main.py) and _find_pdf_files (doclingGUI.py)  *)
(***************************************************************************)

\* Bound: number of entries in the directory tree.
MaxTree == 2

\* File names are tuples of characters.
NameTexts ==
    { <<"a", ".", "p", "d", "f">>,
      <<"b", ".", "d", "o", "c", "x">>,
      <<".", "h", ".", "p", "d", "f">>,
      <<"c", ".", "e", "x", "e">>,
      <<"A", ".", "P", "D", "F">>,
      <<"n", ".", "M", "d">>,
      <<"p", "d", "f">> }

\* An entry of the tree: a regular file or a directory, directly in the
\* input folder or in a subfolder of it.
Entries == [name : NameTexts, kind : {"file", "dir"}, sub : BOOLEAN]

\* The trees of at most k entries.
RECURSIVE TreesUpTo(_)
TreesUpTo(k) ==
    IF k = 0 THEN {{}}
    ELSE LET smaller == TreesUpTo(k - 1)
         IN smaller \cup {t \cup {e} : t \in smaller, e \in Entries}

Trees == TreesUpTo(MaxTree)

\* str.lower() on the letters that occur in NameTexts.
LowerChar(c) ==
    CASE c = "A" -> "a"
      [] c = "P" -> "p"
      [] c = "D" -> "d"
      [] c = "F" -> "f"
      [] c = "M" -> "m"
      [] OTHER -> c

Lower(s) == [i \in DOMAIN s |-> LowerChar(s[i])]

\* str.startswith and str.endswith.
StartsWith(s, pre) ==
    /\ Len(pre) <= Len(s)
    /\ SubSeq(s, 1, Len(pre)) = pre

EndsWith(s, suf) ==
    /\ Len(suf) <= Len(s)
    /\ SubSeq(s, Len(s) - Len(suf) + 1, Len(s)) = suf

\* str.rfind('.') + 1: the position of the last dot, 0 when there is none.
LastDot(s) ==
    LET dots == {i \in DOMAIN s : s[i] = "."}
    IN IF dots = {} THEN 0 ELSE CHOOSE i \in dots : \A j \in dots : j <= i

\* pathlib's PurePath.suffix: the name from its last dot on, unless that dot
\* is the first or the last character of the name.
Suffix(s) ==
    LET i == LastDot(s)
    IN IF 1 < i /\ i < Len(s) THEN SubSeq(s, i, Len(s)) ELSE <<>>

\* FileProcessor.VALID_EXTENSIONS.
VALID_EXTENSIONS ==
    { <<".", "p", "d", "f">>,
      <<".", "d", "o", "c", "x">>,
      <<".", "p", "p", "t", "x">>,
      <<".", "h", "t", "m", "l">>,
      <<".", "x", "l", "s", "x">>,
      <<".", "m", "d">>,
      <<".", "t", "x", "t">> }

\* FileProcessor.is_valid_file.
is_valid_file(name) ==
    /\ ~StartsWith(name, <<".">>)
    /\ Lower(Suffix(name)) \in VALID_EXTENSIONS

\* FileProcessor.get_files_to_process over a tree: rglob('*') yields every
\* entry at every depth; the regular files that are valid are kept.
rglob_valid_files(t) ==
    {e \in t : e.kind = "file" /\ is_valid_file(e.name)}

\* DoclingGUI._find_pdf_files: os.walk lists the files of every folder;
\* those whose lowered name ends with '.pdf' are kept.
walk_pdf_files(t) ==
    {e \in t : e.kind = "file" /\ EndsWith(Lower(e.name), <<".", "p", "d", "f">>)}

\* FileProcessor.get_files_to_process is called on the tree.
D_GetFilesToProcess ==
    /\ program = "discovery"
    /\ found' = [by |-> "main.py", files |-> rglob_valid_files(tree)]
    /\ UNCHANGED <<program, tree, job, argv, fsvars, wvars, pvars, svars>>

\* DoclingGUI._find_pdf_files is called on the tree.
D_FindPdfFiles ==
    /\ program = "discovery"
    /\ found' = [by |-> "doclingGUI.py", files |-> walk_pdf_files(tree)]
    /\ UNCHANGED <<program, tree, job, argv, fsvars, wvars, pvars, svars>>

InitDiscovery ==
    /\ program = "discovery"
    /\ inputExists = TRUE
    /\ present = {}
    /\ outState = "exists"
    /\ settings_file = [kind |-> "absent"]
    /\ WindowInitW
    /\ WindowInitS
    /\ NoSettingsCalls
    /\ tree \in Trees
    /\ found = [by |-> "none"]
    /\ job = [kind |-> "none"]
    /\ argv = [by |-> "none"]

NextDiscovery == D_GetFilesToProcess \/ D_FindPdfFiles

(***************************************************************************)
(* Command builders: DoclingWorker._build_docling_command (main.py) and    *)
(* the command of DoclingGUI._process_conversion (doclingGUI.py)           *)
(***************************************************************************)

\* Bound: depth of the subfolders of the input folder.
MaxDepth == 1

\* Paths are tuples of components.
InputRoot == <<"in">>
OutputRoot == <<"out">>

\* The folders under the input folder, relative to it.
RECURSIVE SubFolders(_)
SubFolders(d) ==
    IF d = 0 THEN {<<>>}
    ELSE LET above == SubFolders(d - 1)
         IN above \cup {<<"sub">> \o p : p \in above}

\* One conversion: the widget values of either window and the folder of
\* the discovered file.
Jobs ==
    [kind : {"job"},
     export_format : {"md", "json", "text", "doctags"},
     table_mode : {"fast", "accurate"},
     ocr : BOOLEAN,
     force_ocr : BOOLEAN,
     ocr_engine : {"easyocr", "tesseract", "tesseract_cli", "ocrmac"},
     verbosity : 0..2,
     dir : SubFolders(MaxDepth)]

\* The path of the discovered file of a job.
FilePath(j) == InputRoot \o j.dir \o <<"a.pdf">>

\* os.path.relpath of a path below base, os.path.dirname, os.path.join.
relpath(p, base) == SubSeq(p, Len(base) + 1, Len(p))
dirname(p) == SubSeq(p, 1, Len(p) - 1)
join(p, q) == p \o q

\* Arguments are tagged: a literal word or a path.
Word(s) == <<"word", s>>
PathArg(p) == <<"path", p>>
\* "-v" * n, one argument.
Verbosity(n) == <<"verbosity", n>>

\* DoclingWorker._build_docling_command.
build_docling_command(j) ==
    << Word("docling"), PathArg(FilePath(j)),
       Word("--to"), Word(j.export_format),
       Word("--output"), PathArg(OutputRoot),
       Word("--table-mode"), Word(j.table_mode),
       Word("--ocr-engine"), Word("easyocr"),
       Word("--verbose") >>
    \o (IF j.force_ocr THEN <<Word("--force-ocr")>> ELSE <<>>)
    \o (IF j.ocr THEN <<Word("--ocr")>> ELSE <<>>)

\* The output folder DoclingGUI._process_conversion computes for a file.
output_dir(j) == join(OutputRoot, dirname(relpath(FilePath(j), InputRoot)))

\* The command DoclingGUI._process_conversion builds for a file.
gui_command(j) ==
    << Word("docling"), PathArg(FilePath(j)),
       Word("--from"), Word("pdf"), Word("--to"), Word("md") >>
    \o <<IF j.ocr THEN Word("--ocr") ELSE Word("--no-ocr")>>
    \o <<IF j.force_ocr THEN Word("--force-ocr") ELSE Word("--no-force-ocr")>>
    \o <<Word("--ocr-engine"), Word(j.ocr_engine)>>
    \o <<Word("--table-mode"), Word(j.table_mode)>>
    \o <<Word("--output"), PathArg(output_dir(j))>>
    \o (IF j.verbosity > 0 THEN <<Verbosity(j.verbosity)>> ELSE <<>>)

\* DoclingWorker._build_docling_command is called for the job.
B_BuildDoclingCommand ==
    /\ program = "builder"
    /\ argv' = [by |-> "main.py", cmd |-> build_docling_command(job)]
    /\ UNCHANGED <<program, tree, found, job, fsvars, wvars, pvars, svars>>

\* DoclingGUI._process_conversion builds the command for the job.
B_GuiCommand ==
    /\ program = "builder"
    /\ argv' = [by |-> "doclingGUI.py", cmd |-> gui_command(job)]
    /\ UNCHANGED <<program, tree, found, job, fsvars, wvars, pvars, svars>>

InitBuilder ==
    /\ program = "builder"
    /\ inputExists = TRUE
    /\ present = {}
    /\ outState = "exists"
    /\ settings_file = [kind |-> "absent"]
    /\ WindowInitW
    /\ WindowInitS
    /\ NoSettingsCalls
    /\ tree = {}
    /\ found = [by |-> "none"]
    /\ job \in Jobs
    /\ argv = [by |-> "none"]

NextBuilder == B_BuildDoclingCommand \/ B_GuiCommand

Init ==
    \/ InitWorker
    \/ InitSync
    \/ InitSettings
    \/ InitDiscovery
    \/ InitBuilder

Next ==
    \/ NextWorker
    \/ NextSync
    \/ NextSettings
    \/ NextDiscovery
    \/ NextBuilder

Spec == Init /\ [][Next]_vars

\* Each program on its own.
SpecWorker == InitWorker /\ [][NextWorker]_vars
SpecSync == InitSync /\ [][NextSync]_vars
SpecSettings == InitSettings /\ [][NextSettings]_vars
SpecDiscovery == InitDiscovery /\ [][NextDiscovery]_vars
SpecBuilder == InitBuilder /\ [][NextBuilder]_vars

(***************************************************************************)
(* Properties                                                              *)
(***************************************************************************)

\* main.py: the run state the window shows.  _processing_finished always
\* leaves "Processing completed"; no text stands for a cancelled or a
\* failed run.
ReportedStateW ==
    IF ~start_btn THEN "Running"
    ELSE IF progress_label = FinishedLabel THEN "Completed"
    ELSE "Idle"

\* main.py: the run started last is over and the window has handled every
\* signal of it.
RunOverW ==
    /\ program = "worker"
    /\ threads # <<>>
    /\ threads[Len(threads)].pc = "done"
    /\ sigq = <<>>

LastWorker == threads[Len(threads)]

RunFrames == {i \in 1..Len(stack) : stack[i].kind = "run"}

\* The first k files of a discovery list.
FirstFiles(files, k) == {files[i] : i \in 1..k}

\* C1: when cancellation is requested after the conversion of file k has
\* ended and before that of file k+1 has started (0 <= k < n), exactly the
\* first k files are converted and the run ends in Cancelled.
C1_CancelBetweenFiles ==
    RunOverW =>
        LET w == LastWorker
        IN (w.cancelBetween >= 0 /\ w.cancelBetween < Len(w.files)) =>
              /\ Tried(w) = FirstFiles(w.files, w.cancelBetween)
              /\ ReportedStateW = "Cancelled"

\* A log of process starts and exits is sequential and in the order of
\* `files`: every start is followed by the exit of the same file before the
\* next start, and the files started come in the order of discovery.
Position(files, f) == CHOOSE i \in 1..Len(files) : files[i] = f
Sequential(log, files) ==
    /\ \A i \in 1..Len(log) :
          /\ log[i][2] \in {files[j] : j \in 1..Len(files)}
          /\ (i % 2 = 1) => log[i][1] = "start"
          /\ (i % 2 = 0) => log[i] = <<"exit", log[i - 1][2]>>
    /\ \A i, j \in 1..Len(log) :
          (i < j /\ log[i][1] = "start" /\ log[j][1] = "start")
              => Position(files, log[i][2]) < Position(files, log[j][2])

AliveProcesses ==
    Cardinality({t \in 1..Len(threads) : threads[t].pc = "wait"})
    + Cardinality({i \in RunFrames : stack[i].pc = "wait"})

\* C2: in either front-end, whatever the user does, at most one external
\* process is alive at any moment, and every run starts its processes one
\* after the other in discovery order.
C2_OneProcessAtATime ==
    /\ AliveProcesses <= 1
    /\ \A t \in 1..Len(threads) : Sequential(threads[t].log, threads[t].files)
    /\ \A i \in RunFrames : Sequential(stack[i].log, stack[i].files)

\* A conversion entered from the processEvents() of another runs the process
\* of its second file while the outer conversion waits.
C2_Witness ==
    /\ Len(stack) = 2
    /\ stack[1].kind = "run" /\ stack[1].pc = "events"
    /\ stack[2].kind = "run" /\ stack[2].pc = "wait" /\ stack[2].idx = 2

\* C3: in doclingGUI.py, when the process of a file exits with a non-zero
\* code the run ends in Failed, its message holds the name of the file and
\* the stderr text, and no later file is attempted.
C3_AbortOnFailure ==
    \A i \in RunFrames :
        LET fr == stack[i]
        IN (fr.failed # 0 /\ fr.code # 0) =>
              /\ fr.pc = "box"
              /\ fr.result = "Failed"
              /\ Contains(fr.box, Name(fr.failed))
              /\ ContainsText(fr.box, fr.stderr)
              /\ fr.log[Len(fr.log)] = <<"exit", fr.failed>>
              /\ \A j \in 1..Len(fr.files) :
                    Position(fr.files, fr.failed) < j
                        => ~\E n \in 1..Len(fr.log) : fr.log[n][2] = fr.files[j]

\* The half of C3 that doclingGUI.py keeps: the same, for a process whose
\* output subprocess.run could decode.
C3_AbortOnDecodedFailure ==
    \A i \in RunFrames :
        LET fr == stack[i]
        IN (fr.failed # 0 /\ fr.code # 0 /\ fr.how = "exit") =>
              /\ fr.pc = "box"
              /\ fr.result = "Failed"
              /\ Contains(fr.box, Name(fr.failed))
              /\ ContainsText(fr.box, fr.stderr)
              /\ fr.log[Len(fr.log)] = <<"exit", fr.failed>>
              /\ \A j \in 1..Len(fr.files) :
                    Position(fr.files, fr.failed) < j
                        => ~\E n \in 1..Len(fr.log) : fr.log[n][2] = fr.files[j]

\* The first of two files fails with stderr "parse error".
C3_Witness ==
    /\ stack # <<>>
    /\ Top.kind = "run"
    /\ Top.pc = "box"
    /\ Len(Top.files) >= 2
    /\ Top.failed = Top.files[1]
    /\ Top.stderr = "parse error"

\* C4: in main.py, a failure of one file is reported by an error signal
\* that names the file and carries the cause, and it does not end the loop:
\* unless cancellation was requested, a loop that is over has tried every
\* discovered file.
C4_ContinueOnFailure ==
    \A t \in 1..Len(threads) :
        LET w == threads[t]
        IN /\ \A x \in w.failed :
                 \E n \in 1..Len(w.errs) :
                    /\ Contains(w.errs[n], Name(x.f))
                    /\ ContainsText(w.errs[n], x.cause)
           /\ (w.pc \in {"finish", "done"} /\ ~w.is_cancelled)
                 => Tried(w) = FirstFiles(w.files, Len(w.files))

\* The first of two files failed with stderr "parse error" and the second
\* was converted all the same.
C4_Witness ==
    /\ threads # <<>>
    /\ LastWorker.pc = "done"
    /\ ~LastWorker.is_cancelled
    /\ Len(LastWorker.files) = 2
    /\ [f |-> LastWorker.files[1], cause |-> "parse error"] \in LastWorker.failed
    /\ LastWorker.files[2] \in Started(LastWorker)

\* C5: a run whose folders are not usable at the start (input folder not
\* given or missing, output folder missing and not creatable) is rejected:
\* no worker is created for it and no conversion loop is entered.
C5_InvalidConfigRejected ==
    /\ \A t \in 1..Len(threads) : threads[t].inputOk
    /\ \A i \in RunFrames : stack[i].result # "Rejected" => stack[i].usable

\* C6: a run whose discovery finds no file fails; it is not reported as
\* completed.
C6_EmptyDiscoveryFails ==
    /\ (RunOverW /\ LastWorker.files = <<>>) => ReportedStateW = "Failed"
    /\ \A i \in RunFrames :
          (stack[i].pc = "box" /\ stack[i].usable /\ stack[i].files = <<>>)
              => stack[i].result = "Failed"

\* main.py under the scheduling the program runs with: a worker thread that
\* can take a step takes it (every external process exits), and the event
\* loop handles every queued signal.
FairSpecWorker == SpecWorker /\ WF_vars(WorkerStep) /\ WF_vars(UiDeliver)

\* Every run that starts is over at some time: the window has handled the
\* finished signal and enabled the Start button again.
RunsEndW == (~start_btn) ~> start_btn

\* C7: a run that is over is reported as Completed only when every file was
\* processed, as Cancelled when cancellation stopped it and as Failed when
\* an error stopped it.
C7_TerminalStateMatches ==
    /\ RunOverW =>
          LET w == LastWorker
              all == Tried(w) = FirstFiles(w.files, Len(w.files))
          IN /\ ReportedStateW \in {"Completed", "Cancelled", "Failed"}
             /\ ReportedStateW = "Completed" => all
             /\ (w.is_cancelled /\ ~all) => ReportedStateW = "Cancelled"
    /\ \A i \in RunFrames :
          (stack[i].pc = "box" /\ stack[i].result = "Completed")
              => Len(stack[i].log) = 2 * Len(stack[i].files)

\* C8: in doclingGUI.py a run removes source files only when
\* config.delete_pdfs is set and every discovered file was converted; a
\* run that failed has removed nothing; an os.remove that fails neither
\* stops the removal of the other files nor turns the run into a failure.
C8_DeleteOnlyAfterSuccess ==
    \A i \in RunFrames :
        LET fr == stack[i]
        IN /\ fr.delSeen # {} =>
                 /\ fr.del
                 /\ fr.result = "Completed"
                 /\ fr.failed = 0
                 /\ \A j \in 1..Len(fr.files) :
                       \E n \in 1..Len(fr.log) : fr.log[n] = <<"exit", fr.files[j]>>
           /\ fr.deleted \subseteq fr.delSeen
           /\ fr.result # "Completed" => fr.delSeen = {}
           /\ fr.deleted = fr.delSeen \ fr.delFailed

\* A run that completed although one os.remove failed, and that removed a
\* file that comes after the one it could not remove.
C8_Witness ==
    /\ stack # <<>>
    /\ Top.kind = "run"
    /\ Top.pc = "box"
    /\ Top.result = "Completed"
    /\ \E g \in Top.delFailed : \E f \in Top.deleted : g < f

\* C9: load_settings never raises and returns the defaults for a file that
\* is absent, unreadable or malformed (valid JSON that is no object
\* included), and otherwise each key from the file or from the defaults.
C9_LoadNeverRaises ==
    loaded.kind = "result" =>
        /\ ~loaded.res.raised
        /\ loaded.file.kind # "object" => loaded.res.value = default_settings
        /\ loaded.file.kind = "object" =>
              \A k \in Keys :
                 loaded.res.value[k] =
                    IF k \in DOMAIN loaded.file.members
                    THEN JsonDecode(loaded.file.members[k])
                    ELSE default_settings[k]

\* C10, as stated: load_settings after save_settings(S) returns S.
C10_RoundTrip ==
    (saved.kind = "saved" /\ loaded.kind = "result") =>
        /\ ~loaded.res.raised
        /\ loaded.res.value = saved.S

\* The allow-list of extensions the discovery is specified with.
AllowedExtensions ==
    { <<"p", "d", "f">>, <<"d", "o", "c", "x">>, <<"p", "p", "t", "x">>,
      <<"h", "t", "m", "l">>, <<"x", "l", "s", "x">>, <<"m", "d">>,
      <<"t", "x", "t">> }

\* The regular files of a tree whose extension is allow-listed, whatever
\* its case, and whose name does not start with the hidden marker.
Discoverable(t) ==
    {e \in t :
        /\ e.kind = "file"
        /\ e.name[1] # "."
        /\ \E x \in AllowedExtensions : EndsWith(Lower(e.name), <<".">> \o x)}

\* C11: in both front-ends discovery returns exactly the regular files
\* with an allow-listed extension (case-insensitive) and a name that does
\* not start with '.'; an empty tree yields an empty result.
C11_DiscoveryExact ==
    found.by # "none" => found.files = Discoverable(tree)

\* The half of C11 that main.py keeps.
C11_MainDiscoveryExact ==
    found.by = "main.py" => found.files = Discoverable(tree)

\* Number of occurrences of an argument in a command.
Occurrences(cmd, a) == Cardinality({i \in DOMAIN cmd : cmd[i] = a})

\* The arguments that directly follow an argument.
ValuesAfter(cmd, a) ==
    {cmd[i + 1] : i \in {k \in 1..(Len(cmd) - 1) : cmd[k] = a}}

\* C12: the argument list holds --to, --output, --table-mode and
\* --ocr-engine exactly once and at most one flag of each OCR pair, and
\* the value after --output is the output root joined with the parent
\* folder of the file relative to the input root.
C12_CommandWellFormed ==
    argv.by # "none" =>
        /\ \A f \in {"--to", "--output", "--table-mode", "--ocr-engine"} :
              Occurrences(argv.cmd, Word(f)) = 1
        /\ Occurrences(argv.cmd, Word("--ocr"))
              + Occurrences(argv.cmd, Word("--no-ocr")) <= 1
        /\ Occurrences(argv.cmd, Word("--force-ocr"))
              + Occurrences(argv.cmd, Word("--no-force-ocr")) <= 1
        /\ ValuesAfter(argv.cmd, Word("--output"))
              = {PathArg(OutputRoot \o job.dir)}

\* The half of C12 that doclingGUI.py keeps.
C12_GuiCommandWellFormed ==
    argv.by = "doclingGUI.py" => C12_CommandWellFormed

\* The flag counts of C12, which main.py keeps too.
C12_FlagsOnce ==
    argv.by # "none" =>
        /\ \A f \in {"--to", "--output", "--table-mode", "--ocr-engine"} :
              Occurrences(argv.cmd, Word(f)) = 1
        /\ Occurrences(argv.cmd, Word("--ocr"))
              + Occurrences(argv.cmd, Word("--no-ocr")) <= 1
        /\ Occurrences(argv.cmd, Word("--force-ocr"))
              + Occurrences(argv.cmd, Word("--no-force-ocr")) <= 1

\* C13: a cancellation requested while the external process of file j is
\* running does not end that process: it is still running or has exited by
\* itself, no later file is started, and when the loop has ended exactly
\* the files 1..j were handed to the external tool.
C13_CancelLetsProcessFinish ==
    \A t \in DOMAIN threads :
       LET w == threads[t]
           j == w.cancelDuring
       IN j > 0 =>
             /\ w.is_cancelled
             /\ w.files[j] \in Started(w)
             /\ \/ w.pc = "wait" /\ w.idx = j
                \/ Contains(w.log, <<"exit", w.files[j]>>)
             /\ Tried(w) \subseteq FirstFiles(w.files, j)
             /\ w.pc \in {"finish", "done"} =>
                   /\ Contains(w.log, <<"exit", w.files[j]>>)
                   /\ Tried(w) = FirstFiles(w.files, j)

\* Cancel came while the process of the first of two files was running;
\* that conversion succeeded afterwards and the second file was skipped.
C13_Witness ==
    /\ threads # <<>>
    /\ LastWorker.cancelDuring = 1
    /\ Len(LastWorker.files) = 2
    /\ LastWorker.pc = "done"
    /\ LastWorker.failed = {}
    /\ Contains(LastWorker.log, <<"exit", LastWorker.files[1]>>)
    /\ ~(LastWorker.files[2] \in Tried(LastWorker))

\* C14: a reset puts an end to the run in progress: once reset_conversion
\* was called during a run, that run takes no further step of its loop, it
\* starts no external process and reports no result.
C14_ResetEndsRun ==
    \A i \in RunFrames : stack[i].wasReset => stack[i].pc = "events"

\* main.py: the workers that run as far as the window knows: started by
\* start_processing and their finished notification not yet handled.
RunningWorkers ==
    {t \in DOMAIN threads :
        \/ threads[t].pc # "done"
        \/ t = Len(threads) /\ \E i \in DOMAIN sigq : sigq[i].sig = "finished"}

\* C15: in main.py at most one worker is running at any time; Start is
\* enabled only when no worker is running, Cancel only while a worker is
\* running that was not cancelled, and never both.
C15_OneWorkerAndButtons ==
    program = "worker" =>
        /\ Cardinality(RunningWorkers) <= 1
        /\ start_btn => RunningWorkers = {}
        /\ cancel_btn =>
              IF threads = <<>> THEN FALSE
              ELSE /\ Len(threads) \in RunningWorkers
                   /\ ~LastWorker.is_cancelled
        /\ ~(start_btn /\ cancel_btn)

\* A worker waits for the process of a file, Cancel is enabled and Start
\* is not.
C15_Witness ==
    /\ program = "worker"
    /\ threads # <<>>
    /\ LastWorker.pc = "wait"
    /\ cancel_btn
    /\ ~start_btn

\* doclingGUI.py: the calls of _process_conversion that are in their loop.
LoopsInProgress ==
    {i \in RunFrames : stack[i].pc \in {"spawn", "wait", "events"}}

\* C16: in doclingGUI.py the Run button is disabled whenever a conversion
\* loop is in progress, so no second loop is entered before the first has
\* returned and no file is converted by two loops at once.
C16_RunDisabledInLoop ==
    /\ LoopsInProgress # {} => ~run_button
    /\ Cardinality(LoopsInProgress) <= 1
    /\ \A i, k \in LoopsInProgress :
          i # k => Started(stack[i]) \cap Started(stack[k]) = {}

\* C17: every file the deletion pass of a run removes was discovered by
\* that run and converted successfully by it; a file that appeared under
\* the input folder after discovery is not removed.
C17_DeletesOnlyConverted ==
    \A i \in RunFrames :
       LET fr == stack[i]
       IN fr.deleted # {} =>
             /\ fr.deleted \subseteq FirstFiles(fr.files, Len(fr.files))
             /\ fr.deleted \subseteq Started(fr)
             /\ fr.failed = 0

====
